---- MODULE Spec2Model ----
(***************************************************************************)
(* Model of raytracing-rs (src/src/main.rs): the scene state World, its    *)
(* per-tick update (drag interaction, bouncing occluder), the per-pixel    *)
(* classification of World::draw over the frame's 4-byte chunks, and the   *)
(* ray/circle test is_shadowed.                                            *)
(*                                                                         *)
(* All scene quantities are Rust f32.  They are modelled as IEEE-754       *)
(* binary32 values with round-to-nearest-even arithmetic, on integer       *)
(* mantissas and exponents; NaN and the infinities are kept, since the     *)
(* zero-length-ray case of is_shadowed produces them.                      *)
(***************************************************************************)
EXTENDS Integers, Sequences, FiniteSets, TLC

(***************************************************************************)
(* f32: a value is NaN, an infinity, or (-1)^s * m * 2^e with m < 2^24.    *)
(* Canonical form: m = 0 and e = 0 (a zero), 2^23 <= m < 2^24 (a normal),  *)
(* or e = EMin and m < 2^23 (a subnormal).                                 *)
(***************************************************************************)
MantBits == 24
EMin == -149
EMax == 104

Pow2(n) == 2 ^ n

NaN == [k |-> "nan", s |-> 0, m |-> 0, e |-> 0]
Inf(sg) == [k |-> "inf", s |-> sg, m |-> 0, e |-> 0]
Zero(sg) == [k |-> "fin", s |-> sg, m |-> 0, e |-> 0]
Fin(sg, mant, ex) == [k |-> "fin", s |-> sg, m |-> mant, e |-> ex]

IsNaN(x) == x.k = "nan"
IsInf(x) == x.k = "inf"
IsFinite(x) == x.k = "fin"
IsZero(x) == x.k = "fin" /\ x.m = 0

Xor(a, b) == IF a = b THEN 0 ELSE 1

\* Number of bits of n >= 0 (0 for n = 0).
RECURSIVE BitLenFrom(_, _)
BitLenFrom(n, len) == IF n = 0 THEN len ELSE BitLenFrom(n \div 2, len + 1)

BitLen(n) ==
    IF n < 8388608 THEN BitLenFrom(n, 0)
    ELSE IF n < 16777216 THEN 24
    ELSE BitLenFrom(n \div 16777216, 24)

\* n with its lowest bit set when st: the bits shifted out are remembered
\* ("sticky") so that a later rounding sees that the value is inexact.
Jam(n, st) == IF st /\ n % 2 = 0 THEN n + 1 ELSE n

\* Round (-1)^sg * n * 2^ex (n < 2^30, n > 0, its lowest bit sticky when the
\* value is inexact and n has at least 26 bits) to the nearest f32, ties to
\* even; overflow gives an infinity, underflow a subnormal or a zero.
RoundPack(sg, n, ex) ==
    LET len == BitLen(n)
        sh0 == len - MantBits
        sh == IF ex + sh0 < EMin THEN EMin - ex ELSE sh0
    IN  IF sh <= 0
        THEN (IF ex + sh > EMax THEN Inf(sg) ELSE Fin(sg, n * Pow2(-sh), ex + sh))
        ELSE IF sh > len
        THEN Zero(sg)
        ELSE LET q == n \div Pow2(sh)
                 r == n % Pow2(sh)
                 half == Pow2(sh - 1)
                 up == r > half \/ (r = half /\ q % 2 = 1)
                 q1 == IF up THEN q + 1 ELSE q
                 carry == q1 = Pow2(MantBits)
                 m2 == IF carry THEN Pow2(MantBits - 1) ELSE q1
                 e2 == IF carry THEN ex + sh + 1 ELSE ex + sh
             IN  IF e2 > EMax THEN Inf(sg)
                 ELSE IF m2 = 0 THEN Zero(sg)
                 ELSE Fin(sg, m2, e2)

\* The mantissa and exponent of a finite nonzero x with the mantissa brought
\* to 24 bits (a subnormal's exponent goes below EMin here).
NormM(x) == IF x.m >= 8388608 THEN x.m ELSE x.m * Pow2(MantBits - BitLen(x.m))
NormE(x) == IF x.m >= 8388608 THEN x.e ELSE x.e - (MantBits - BitLen(x.m))

F32Neg(x) == IF IsNaN(x) THEN NaN ELSE [x EXCEPT !.s = 1 - x.s]

\* The sum of (-1)^sx * a * 2^ex and (-1)^sy * b * 2^ex, a and b not both 0.
AddAligned(sx, a, sy, b, ex) ==
    IF sx # sy /\ a = b THEN Zero(0)
    ELSE RoundPack(IF sx = sy \/ a > b THEN sx ELSE sy,
                   IF sx = sy THEN a + b ELSE IF a > b THEN a - b ELSE b - a,
                   ex)

\* x + y for finite nonzero x, y with exponents ex >= ey and 24-bit
\* mantissas mx, my: three more bits are kept, the last one sticky.
AddNormal(sx, mx, ex, sy, my, ey) ==
    AddAligned(sx, mx * 8,
               sy, IF ex - ey > 27 THEN 1
                   ELSE Jam((my * 8) \div Pow2(ex - ey), (my * 8) % Pow2(ex - ey) # 0),
               ex - 3)

AddOrdered(x, y) == AddNormal(x.s, NormM(x), NormE(x), y.s, NormM(y), NormE(y))

F32Add(x, y) ==
    IF IsNaN(x) \/ IsNaN(y) THEN NaN
    ELSE IF IsInf(x) THEN (IF IsInf(y) /\ y.s # x.s THEN NaN ELSE x)
    ELSE IF IsInf(y) THEN y
    ELSE IF IsZero(x) THEN (IF IsZero(y) THEN Zero(IF x.s = 1 /\ y.s = 1 THEN 1 ELSE 0) ELSE y)
    ELSE IF IsZero(y) THEN x
    ELSE AddOrdered(IF NormE(x) >= NormE(y) THEN x ELSE y,
                    IF NormE(x) >= NormE(y) THEN y ELSE x)

F32Sub(x, y) == F32Add(x, F32Neg(y))

\* x * y: the 48-bit product of the mantissas from 12-bit halves.
F32Mul(x, y) ==
    IF IsNaN(x) \/ IsNaN(y) THEN NaN
    ELSE IF IsInf(x) \/ IsInf(y)
    THEN (IF IsZero(x) \/ IsZero(y) THEN NaN ELSE Inf(Xor(x.s, y.s)))
    ELSE IF IsZero(x) \/ IsZero(y) THEN Zero(Xor(x.s, y.s))
    ELSE LET a == NormM(x)
             b == NormM(y)
             a1 == a \div 4096
             a0 == a % 4096
             b1 == b \div 4096
             b0 == b % 4096
             mid == a1 * b0 + a0 * b1
             losum == (mid % 4096) * 4096 + a0 * b0
             lo == losum % Pow2(24)
             hi == a1 * b1 + mid \div 4096 + losum \div Pow2(24)
             n == Jam(hi * 8 + lo \div Pow2(21), lo % Pow2(21) # 0)
         IN  RoundPack(Xor(x.s, y.s), n, NormE(x) + NormE(y) + 21)

\* Long division, seven quotient bits at a time: <<quotient, remainder>>
\* of (r * 2^(7*i)) by b, on top of the quotient q so far.
RECURSIVE DivSteps(_, _, _, _)
DivSteps(q, r, b, i) ==
    IF i = 0 THEN <<q, r>>
    ELSE DivSteps(q * 128 + (r * 128) \div b, (r * 128) % b, b, i - 1)

F32Div(x, y) ==
    IF IsNaN(x) \/ IsNaN(y) THEN NaN
    ELSE IF IsInf(x) THEN (IF IsInf(y) THEN NaN ELSE Inf(Xor(x.s, y.s)))
    ELSE IF IsInf(y) THEN Zero(Xor(x.s, y.s))
    ELSE IF IsZero(y) THEN (IF IsZero(x) THEN NaN ELSE Inf(Xor(x.s, y.s)))
    ELSE IF IsZero(x) THEN Zero(Xor(x.s, y.s))
    ELSE LET a == NormM(x)
             b == NormM(y)
             qr == DivSteps(a \div b, a % b, b, 4)
         IN  RoundPack(Xor(x.s, y.s), Jam(qr[1], qr[2] # 0), NormE(x) - NormE(y) - 28)

\* Digit-by-digit square root: the radicand is the 13 bit pairs of mant
\* followed by 14 pairs of zeros; <<root, remainder>>.
RECURSIVE SqrtSteps(_, _, _, _)
SqrtSteps(root, rem, mant, i) ==
    IF i < -14 THEN <<root, rem>>
    ELSE LET pair == IF i >= 0 THEN (mant \div Pow2(2 * i)) % 4 ELSE 0
             r == rem * 4 + pair
             t == root * 4 + 1
         IN  IF r >= t THEN SqrtSteps(root * 2 + 1, r - t, mant, i - 1)
             ELSE SqrtSteps(root * 2, r, mant, i - 1)

F32Sqrt(x) ==
    IF IsNaN(x) THEN NaN
    ELSE IF IsZero(x) THEN x
    ELSE IF x.s = 1 THEN NaN
    ELSE IF IsInf(x) THEN x
    ELSE LET odd == NormE(x) % 2 # 0
             mant == IF odd THEN NormM(x) * 2 ELSE NormM(x)
             ex == IF odd THEN NormE(x) - 1 ELSE NormE(x)
             rr == SqrtSteps(0, 0, mant, 12)
         IN  RoundPack(0, Jam(rr[1], rr[2] # 0), (ex \div 2) - 14)

\* |x| < |y| for finite nonzero x, y.
MagLt(x, y) ==
    \/ NormE(x) < NormE(y)
    \/ NormE(x) = NormE(y) /\ NormM(x) < NormM(y)

\* x < y (false when either is NaN; the zeros are equal).
F32Lt(x, y) ==
    IF IsNaN(x) \/ IsNaN(y) THEN FALSE
    ELSE IF IsZero(x) /\ IsZero(y) THEN FALSE
    ELSE IF IsInf(x) THEN (x.s = 1 /\ ~(IsInf(y) /\ y.s = 1))
    ELSE IF IsInf(y) THEN y.s = 0
    ELSE IF IsZero(x) THEN y.s = 0
    ELSE IF IsZero(y) THEN x.s = 1
    ELSE IF x.s # y.s THEN x.s = 1
    ELSE IF x.s = 0 THEN MagLt(x, y) ELSE MagLt(y, x)

F32Eq(x, y) ==
    IF IsNaN(x) \/ IsNaN(y) THEN FALSE
    ELSE (IsZero(x) /\ IsZero(y)) \/ x = y

F32Le(x, y) == F32Lt(x, y) \/ F32Eq(x, y)
F32Gt(x, y) == F32Lt(y, x)

\* An integer |n| < 2^24 as f32 (exact).
F32FromInt(n) ==
    IF n = 0 THEN Zero(0)
    ELSE RoundPack(IF n > 0 THEN 0 ELSE 1, IF n > 0 THEN n ELSE -n, 0)


(***************************************************************************)
(* The program's constants.                                                *)
(***************************************************************************)
WIDTH == 1280
HEIGHT == 720

CIRCLE_X == F32FromInt(850)
CIRCLE_Y == F32Div(F32FromInt(720), F32FromInt(2))
CIRCLE_R == F32FromInt(150)

LIGHT_X == F32FromInt(200)
LIGHT_Y == F32Div(F32FromInt(720), F32FromInt(2))
LIGHT_R == F32FromInt(25)

\* The literal 0.2 as f32: the f32 nearest to 2/10.
InitialVy == F32Div(F32FromInt(2), F32FromInt(10))

\* HEIGHT as f32 - CIRCLE_R
LowerLimit == F32Sub(F32FromInt(HEIGHT), CIRCLE_R)

(***************************************************************************)
(* What World::update reads of the input helper: the three queries on the  *)
(* primary button and the cursor position (None before the pointer has     *)
(* been seen).  Pointer coordinates are drawn from PointerPositions.       *)
(***************************************************************************)
\* Option::None of the cursor position; Some((mx, my)) is the pair itself.
None == <<>>

PointerPositions == {<<205, 360>>, <<215, 380>>, <<226, 360>>, <<999, 999>>}

InputsAt(positions) ==
    [pressed : BOOLEAN, held : BOOLEAN, released : BOOLEAN, cursor : {None} \cup positions]

Inputs == InputsAt(PointerPositions)

\* The inputs of the ticks whose input is not recorded: the pointer on the
\* light or far from it.
PlainInputs == InputsAt({<<205, 360>>, <<999, 999>>})

VARIABLES
    world,      \* the World: dragging, light_x, light_y, circle_y, circle_vy
    input,      \* what the last world.update(&input) read of the input helper
    ticks,      \* how many calls of world.update are recorded in input
    sinceFlip,  \* how many calls of world.update since circle_vy last changed
    snapshot,   \* the World a draw call in progress reads (&self)
    frame,      \* the frame's bytes, by byte index
    todo,       \* chunk indices of the draw call no worker has taken yet
    worker,     \* per worker: the chunk it holds and the colour it computed
    writes,     \* per byte index: how many times the draw call wrote it
    probe,      \* the arguments of a call of is_shadowed
    verdict     \* what the call computed

vars == <<world, input, ticks, sinceFlip, snapshot, frame, todo, worker, writes, probe, verdict>>

sceneVars == <<world, input, ticks, sinceFlip>>
drawVars == <<snapshot, frame, todo, worker, writes>>
geomVars == <<probe, verdict>>

\* World::new
NewWorld ==
    [dragging |-> FALSE,
     light_x |-> LIGHT_X,
     light_y |-> LIGHT_Y,
     circle_y |-> CIRCLE_Y,
     circle_vy |-> InitialVy]

(***************************************************************************)
(* World::update, statement by statement.                                  *)
(***************************************************************************)
\* (dx * dx + dy * dy).sqrt()
Hypot(dx, dy) == F32Sqrt(F32Add(F32Mul(dx, dx), F32Mul(dy, dy)))

\* (dx * dx + dy * dy).sqrt() <= LIGHT_R for a press position (mx, my)
PressHitsLight(w, c) ==
    F32Le(Hypot(F32Sub(F32FromInt(c[1]), w.light_x),
                F32Sub(F32FromInt(c[2]), w.light_y)),
          LIGHT_R)

\* Check for mouse press inside the light circle
AfterPress(w, in) ==
    IF in.pressed /\ in.cursor # None /\ PressHitsLight(w, in.cursor)
    THEN [w EXCEPT !.dragging = TRUE]
    ELSE w

\* Variant of the follow rule that does not look at dragging; the drag
\* invariant must fail on it.
AfterFollowWheneverHeld(w, in) ==
    IF in.held /\ in.cursor # None
    THEN [w EXCEPT !.light_x = F32FromInt(in.cursor[1]),
                   !.light_y = F32FromInt(in.cursor[2])]
    ELSE w

\* While dragging, follow the mouse
AfterFollow(w, in) ==
    IF w.dragging /\ in.held /\ in.cursor # None
    THEN [w EXCEPT !.light_x = F32FromInt(in.cursor[1]),
                   !.light_y = F32FromInt(in.cursor[2])]
    ELSE w

\* Variant of the release rule that also lets go when the button is not
\* held; the rule for changes of dragging must fail on it.
AfterReleaseOrNotHeld(w, in) ==
    IF in.released \/ ~in.held THEN [w EXCEPT !.dragging = FALSE] ELSE w

\* Stop dragging when released
AfterRelease(w, in) ==
    IF in.released THEN [w EXCEPT !.dragging = FALSE] ELSE w

\* Variant of the move that stands still during a drag; the frame of a tick
\* must fail on it.
AfterMoveUnlessDragging(w) ==
    IF w.dragging THEN w ELSE [w EXCEPT !.circle_y = F32Add(w.circle_y, w.circle_vy)]

\* Move the circle up and down
AfterMove(w) == [w EXCEPT !.circle_y = F32Add(w.circle_y, w.circle_vy)]

\* Variant of the bounce test without its second half; the properties of the
\* occluder's range must fail on it.
OutOfBoundsFirstHalf(y) == F32Lt(y, CIRCLE_R)

\* self.circle_y < CIRCLE_R || self.circle_y > (HEIGHT as f32 - CIRCLE_R)
OutOfBounds(y) == F32Lt(y, CIRCLE_R) \/ F32Gt(y, LowerLimit)

\* Variants of the bounce: one negates the velocity on every tick, one never
\* does; the properties of the bounce must fail on them.
AfterBounceEveryTick(w) == [w EXCEPT !.circle_vy = F32Neg(w.circle_vy)]
AfterBounceNever(w) == w

\* Bounce off top/bottom
AfterBounce(w) ==
    IF OutOfBounds(w.circle_y)
    THEN [w EXCEPT !.circle_vy = F32Neg(w.circle_vy)]
    ELSE w

Update(w, in) ==
    AfterBounce(AfterMove(AfterRelease(AfterFollow(AfterPress(w, in), in), in)))

(***************************************************************************)
(* is_shadowed                                                             *)
(***************************************************************************)
\* disc = b*b - 4.0*a*c
QuadraticOf(a, b, c) ==
    [a |-> a, b |-> b, c |-> c,
     disc |-> F32Sub(F32Mul(b, b), F32Mul(F32Mul(F32FromInt(4), a), c))]

\* a, b and c from dx, dy (light to pixel) and fx, fy (centre to light)
QuadraticFrom(dx, dy, fx, fy, r) ==
    QuadraticOf(F32Add(F32Mul(dx, dx), F32Mul(dy, dy)),
                F32Mul(F32FromInt(2), F32Add(F32Mul(fx, dx), F32Mul(fy, dy))),
                F32Sub(F32Add(F32Mul(fx, fx), F32Mul(fy, fy)), F32Mul(r, r)))

\* a, b, c and disc of is_shadowed
Quadratic(lx, ly, px, py, cx, cy, r) ==
    QuadraticFrom(F32Sub(px, lx), F32Sub(py, ly), F32Sub(lx, cx), F32Sub(ly, cy), r)

\* Variant of the roots that answers 0 for a zero denominator; the property
\* of the zero-length ray must fail on it.
RootsFromGuarded(negB, disc_sqrt, twoA) ==
    IF IsZero(twoA)
    THEN [t1 |-> Zero(0), t2 |-> Zero(0)]
    ELSE [t1 |-> F32Div(F32Sub(negB, disc_sqrt), twoA),
          t2 |-> F32Div(F32Add(negB, disc_sqrt), twoA)]

\* t1 and t2 from -b, disc_sqrt and 2.0*a
RootsFrom(negB, disc_sqrt, twoA) ==
    [t1 |-> F32Div(F32Sub(negB, disc_sqrt), twoA),
     t2 |-> F32Div(F32Add(negB, disc_sqrt), twoA)]

\* t1 and t2 of is_shadowed
Roots(q) == RootsFrom(F32Neg(q.b), F32Sqrt(q.disc), F32Mul(F32FromInt(2), q.a))

\* Variant of the interval test without the lower end; the colour of a pixel
\* behind the light must fail on it.
InUnitIntervalUpperOnly(t) == F32Le(t, F32FromInt(1))

\* (0.0..=1.0).contains(&t)
InUnitInterval(t) == F32Le(F32FromInt(0), t) /\ F32Le(t, F32FromInt(1))

EitherInUnitInterval(rt) == InUnitInterval(rt.t1) \/ InUnitInterval(rt.t2)

\* The two returns of is_shadowed, on its quadratic
ShadowedOf(q) ==
    IF F32Lt(q.disc, F32FromInt(0)) THEN FALSE ELSE EitherInUnitInterval(Roots(q))

IsShadowed(lx, ly, px, py, cx, cy, r) == ShadowedOf(Quadratic(lx, ly, px, py, cx, cy, r))

(***************************************************************************)
(* World::draw: the closure run on chunk i of the frame.                   *)
(***************************************************************************)
White == <<255, 255, 255, 255>>
Black == <<0, 0, 0, 255>>
Yellow == <<255, 255, 0, 255>>

\* xi and yi of chunk i
PixelX(i) == F32FromInt(i % WIDTH)
PixelY(i) == F32FromInt(i \div WIDTH)

\* ((x - cx).powi(2) + (y - cy).powi(2)).sqrt()
Dist(x, y, cx, cy) == Hypot(F32Sub(x, cx), F32Sub(y, cy))

\* Variant of the colour rule with the rims excluded (< for <=); the rule
\* for white pixels must fail on it.
ShadeAtStrict(w, xi, yi) ==
    IF F32Lt(Dist(xi, yi, w.light_x, w.light_y), LIGHT_R) THEN White
    ELSE IF F32Lt(Dist(xi, yi, CIRCLE_X, w.circle_y), CIRCLE_R) THEN White
    ELSE IF IsShadowed(w.light_x, w.light_y, xi, yi, CIRCLE_X, w.circle_y, CIRCLE_R)
    THEN Black
    ELSE Yellow

\* The colour of the pixel at (xi, yi)
ShadeAt(w, xi, yi) ==
    IF F32Le(Dist(xi, yi, w.light_x, w.light_y), LIGHT_R) THEN White
    ELSE IF F32Le(Dist(xi, yi, CIRCLE_X, w.circle_y), CIRCLE_R) THEN White
    ELSE IF IsShadowed(w.light_x, w.light_y, xi, yi, CIRCLE_X, w.circle_y, CIRCLE_R)
    THEN Black
    ELSE Yellow

Shade(w, i) == ShadeAt(w, PixelX(i), PixelY(i))

\* Variant of the chunking with every chunk one byte late; the properties of
\* the parallel rendering must fail on it.
ChunkStartShifted(i) == 4 * i + 1

\* The first byte of chunk i of frame.par_chunks_exact_mut(4).enumerate()
ChunkStart(i) == 4 * i


(***************************************************************************)
(* State outside the part a specification exercises.                       *)
(***************************************************************************)
NoInput == [pressed |-> FALSE, held |-> FALSE, released |-> FALSE, cursor |-> None]

NumWorkers == 2
Workers == 1 .. NumWorkers

Idle == [busy |-> FALSE, chunk |-> 0, rgba |-> <<0, 0, 0, 0>>]

NoProbe == [lx |-> 0, ly |-> 0, px |-> 0, py |-> 0, cx |-> 0, cy |-> 0, r |-> 0]
NoVerdict == [called |-> FALSE, early |-> FALSE, disc |-> NaN, t1 |-> NaN, t2 |-> NaN,
              shadowed |-> FALSE]

SceneIdle == world = NewWorld /\ input = NoInput /\ ticks = 0 /\ sinceFlip = 0
DrawIdle ==
    /\ snapshot = NewWorld
    /\ frame = <<>>
    /\ todo = {}
    /\ worker = [w \in Workers |-> Idle]
    /\ writes = <<>>
GeomIdle == probe = NoProbe /\ verdict = NoVerdict

(***************************************************************************)
(* The scene: the event loop calls world.update(&input) once per input     *)
(* step, for the life of the process.                                      *)
(***************************************************************************)
\* sinceFlip counts up to MaxFlipGap.
MaxFlipGap == 2100

CountSinceFlip ==
    sinceFlip' = IF world'.circle_vy # world.circle_vy THEN 0
                 ELSE IF sinceFlip < MaxFlipGap THEN sinceFlip + 1
                 ELSE sinceFlip

Tick ==
    /\ \E in \in PlainInputs : world' = Update(world, in)
    /\ CountSinceFlip
    /\ UNCHANGED <<input, ticks, drawVars, geomVars>>

Init == SceneIdle /\ DrawIdle /\ GeomIdle

Next == Tick

Spec == Init /\ [][Next]_vars

(***************************************************************************)
(* The same calls of world.update with the input of each call recorded,    *)
(* for the first MaxTicks calls.                                           *)
(***************************************************************************)
MaxTicks == 4

RecordedTick ==
    /\ ticks < MaxTicks
    /\ \E in \in Inputs :
          /\ world' = Update(world, in)
          /\ input' = in
    /\ ticks' = ticks + 1
    /\ CountSinceFlip
    /\ UNCHANGED <<drawVars, geomVars>>

NextRecorded == RecordedTick

SpecRecorded == Init /\ [][NextRecorded]_vars

(***************************************************************************)
(* One call of World::draw on a scene snapshot.  The frame is followed on  *)
(* a window of pixels; rayon hands each chunk of the frame to one worker,  *)
(* in any order, several workers at a time.                                *)
(***************************************************************************)
PixelIndex(p) == p[2] * WIDTH + p[1]

\* Pixels on and next to the rims of the light and of the occluder, pixels
\* left and right of both, and three pixels adjoining in the frame's bytes.
Windows ==
    { {<<225, 360>>, <<700, 360>>, <<900, 360>>},
      {<<226, 360>>, <<699, 360>>, <<1270, 10>>},
      {<<10, 360>>, <<850, 360>>, <<1270, 360>>},
      {<<1279, 359>>, <<0, 360>>, <<1, 360>>} }

\* Light positions of the snapshots (the light follows the pointer anywhere).
SnapshotLights == {<<200, 360>>, <<999, 999>>, <<850, 400>>, <<700, 360>>}

\* Occluder states of the snapshots: the initial one, the next tick's, and
\* the one of the first bounce (tick 1050).
SnapshotCircles ==
    { <<CIRCLE_Y, InitialVy>>,
      <<F32Add(CIRCLE_Y, InitialVy), InitialVy>>,
      <<Fin(0, 9339090, -14), F32Neg(InitialVy)>> }

Snapshots ==
    { [dragging |-> d, light_x |-> F32FromInt(l[1]), light_y |-> F32FromInt(l[2]),
       circle_y |-> c[1], circle_vy |-> c[2]] :
      d \in BOOLEAN, l \in SnapshotLights, c \in SnapshotCircles }

\* What the frame holds before the call: the bytes all 0, or all 171.
PreviousFills == {0, 171}

\* The bytes of pixel i in the frame (RGBA8, row-major).
PixelBytes(i) == (4 * i) .. (4 * i + 3)

WindowBytes(win) == UNION {PixelBytes(PixelIndex(p)) : p \in win}

InitDraw ==
    /\ SceneIdle
    /\ GeomIdle
    /\ snapshot \in Snapshots
    /\ \E win \in Windows, fill \in PreviousFills :
          /\ todo = {PixelIndex(p) : p \in win}
          /\ frame = [b \in WindowBytes(win) |-> fill]
          /\ writes = [b \in WindowBytes(win) |-> 0]
    /\ worker = [w \in Workers |-> Idle]

\* A worker takes chunk i and runs the closure up to the colour.
Take(w, i) ==
    /\ ~worker[w].busy
    /\ i \in todo
    /\ todo' = todo \ {i}
    /\ worker' = [worker EXCEPT ![w] = [busy |-> TRUE, chunk |-> i, rgba |-> Shade(snapshot, i)]]
    /\ UNCHANGED <<snapshot, frame, writes, sceneVars, geomVars>>

\* pixel.copy_from_slice(&rgba)
Store(w) ==
    /\ worker[w].busy
    /\ LET start == ChunkStart(worker[w].chunk)
           hit == {b \in DOMAIN frame : b >= start /\ b < start + 4}
       IN  /\ frame' = [b \in DOMAIN frame |->
                           IF b \in hit THEN worker[w].rgba[b - start + 1] ELSE frame[b]]
           /\ writes' = [b \in DOMAIN writes |->
                           IF b \in hit THEN writes[b] + 1 ELSE writes[b]]
    /\ worker' = [worker EXCEPT ![w] = Idle]
    /\ UNCHANGED <<snapshot, todo, sceneVars, geomVars>>

NextDraw ==
    \/ \E w \in Workers, i \in todo : Take(w, i)
    \/ \E w \in Workers : Store(w)

SpecDraw == InitDraw /\ [][NextDraw]_vars

DrawDone == frame # <<>> /\ todo = {} /\ \A w \in Workers : ~worker[w].busy

(***************************************************************************)
(* One call of is_shadowed on arguments drawn from the points below.       *)
(***************************************************************************)
GeomPoints == {<<200, 360>>, <<10, 360>>, <<850, 360>>, <<1270, 360>>, <<850, 100>>}
GeomCentres == {<<850, 360>>, <<200, 360>>, <<850, 210>>}
GeomRadii == {150, 25, 0}

Probes ==
    { [lx |-> l[1], ly |-> l[2], px |-> p[1], py |-> p[2], cx |-> c[1], cy |-> c[2], r |-> r] :
      l \in GeomPoints, p \in GeomPoints, c \in GeomCentres, r \in GeomRadii }

InitGeom ==
    /\ SceneIdle
    /\ DrawIdle
    /\ probe \in Probes
    /\ verdict = NoVerdict

ProbeQuadratic(pr) ==
    Quadratic(F32FromInt(pr.lx), F32FromInt(pr.ly), F32FromInt(pr.px), F32FromInt(pr.py),
              F32FromInt(pr.cx), F32FromInt(pr.cy), F32FromInt(pr.r))

\* What the call computes: t1 and t2 only past the early return.
VerdictOf(q) ==
    [called |-> TRUE,
     early |-> F32Lt(q.disc, F32FromInt(0)),
     disc |-> q.disc,
     t1 |-> IF F32Lt(q.disc, F32FromInt(0)) THEN NaN ELSE Roots(q).t1,
     t2 |-> IF F32Lt(q.disc, F32FromInt(0)) THEN NaN ELSE Roots(q).t2,
     shadowed |-> ShadowedOf(q)]

Call ==
    /\ ~verdict.called
    /\ verdict' = VerdictOf(ProbeQuadratic(probe))
    /\ UNCHANGED <<probe, sceneVars, drawVars>>

NextGeom == Call

SpecGeom == InitGeom /\ [][NextGeom]_vars


(***************************************************************************)
(* Properties of the bouncing occluder (checked on Spec).     *)
(***************************************************************************)
Abs(x) == IF IsNaN(x) THEN NaN ELSE [x EXCEPT !.s = 0]

\* C1 as stated: in every reachable state occluder_y (circle_y) lies within
\* [occluder_radius, frame_height - occluder_radius] = [150, 570].
C1_AlwaysWithinBounds == ~OutOfBounds(world.circle_y)

\* C1 as amended: in every reachable state occluder_y lies within
\* [occluder_radius - |v|, frame_height - occluder_radius + |v|], where v is
\* occluder_velocity_y: the step that crosses a boundary is completed, so the
\* position may lie beyond the boundary by at most one step.
C1_WithinOneStepOfBounds ==
    /\ F32Le(F32Sub(CIRCLE_R, Abs(world.circle_vy)), world.circle_y)
    /\ F32Le(world.circle_y, F32Add(LowerLimit, Abs(world.circle_vy)))

\* A state in which the occluder has completed a step across a boundary.
C1_Witness == OutOfBounds(world.circle_y)


\* C4: the sign of occluder_velocity_y flips exactly once per boundary
\* crossing: a tick negates the velocity exactly when it takes the occluder
\* from inside the bounds to outside them, and leaves the velocity as it is
\* otherwise (never a second flip in the tick, never a flip when the new
\* occluder_y is within bounds); and as the ticks go on the occluder keeps
\* reversing: fewer than MaxFlipGap ticks pass between two flips.
C4_FlipOncePerCrossing ==
    /\ [][ \/ /\ ~OutOfBounds(world.circle_y)
              /\ OutOfBounds(world'.circle_y)
              /\ world'.circle_vy = F32Neg(world.circle_vy)
           \/ /\ ~OutOfBounds(world'.circle_y)
              /\ world'.circle_vy = world.circle_vy ]_vars
    /\ [](sinceFlip < MaxFlipGap)

\* The occluder has bounced at frame_height - occluder_radius and then at
\* occluder_radius: it lies beyond occluder_radius (circle_y < 150) and its
\* velocity is the initial one again.
C4_Witness ==
    /\ F32Lt(world.circle_y, CIRCLE_R)
    /\ world.circle_vy = InitialVy

\* C8: when a tick leaves occluder_y outside the bounds, the overshoot is at
\* most |occluder_velocity_y|, the very next tick brings occluder_y back
\* inside, and that tick does not flip the velocity again.
C8_BackInsideNextTick ==
    [][ OutOfBounds(world.circle_y) =>
          /\ F32Le(F32Sub(CIRCLE_R, world.circle_y), Abs(world.circle_vy))
          /\ F32Le(F32Sub(world.circle_y, LowerLimit), Abs(world.circle_vy))
          /\ ~OutOfBounds(world'.circle_y)
          /\ world'.circle_vy = world.circle_vy ]_vars

\* The occluder is back inside the bounds after a tick outside them: the step
\* it has just made started beyond the boundary.
C8_Witness ==
    /\ ~OutOfBounds(world.circle_y)
    /\ OutOfBounds(F32Sub(world.circle_y, world.circle_vy))


(***************************************************************************)
(* Properties of the drag interaction (checked on SpecRecorded, where      *)
(* input' is the input the tick read).  Distances are taken here on the    *)
(* integer coordinates, squared, without rounding.                         *)
(***************************************************************************)
\* The integer an f32 with an integer value stands for.
IntOf(x) ==
    IF x.m = 0 THEN 0
    ELSE (IF x.s = 1 THEN -1 ELSE 1) *
         (IF x.e >= 0 THEN x.m * Pow2(x.e) ELSE x.m \div Pow2(-x.e))

IsInteger(x) ==
    IsFinite(x) /\ (x.m = 0 \/ x.e >= 0 \/ (x.e > -MantBits /\ x.m % Pow2(-x.e) = 0))

Dist2(x1, y1, x2, y2) == (x1 - x2) * (x1 - x2) + (y1 - y2) * (y1 - y2)

LightRadius2 == IntOf(LIGHT_R) * IntOf(LIGHT_R)
CircleRadius2 == IntOf(CIRCLE_R) * IntOf(CIRCLE_R)

\* The tick's input carries a press at a position within light_radius of
\* the light_position w holds.
PressWithinLight(w, in) ==
    /\ in.pressed
    /\ in.cursor # None
    /\ Dist2(in.cursor[1], in.cursor[2], IntOf(w.light_x), IntOf(w.light_y)) <= LightRadius2

LightOf(w) == <<w.light_x, w.light_y>>
CursorAsLight(c) == <<F32FromInt(c[1]), F32FromInt(c[2])>>

\* C2: dragging turns true only in a tick that carries a primary-button press
\* within light_radius (distance <= radius) of the light_position held at the
\* start of the tick, and turns false only in a tick that carries a release;
\* no other tick changes dragging.
C2_DraggingChanges ==
    [][ /\ (~world.dragging /\ world'.dragging) => PressWithinLight(world, input')
        /\ (world.dragging /\ ~world'.dragging) => input'.released ]_vars

\* A drag has been started by a press on the boundary of the light (distance
\* exactly light_radius) and ended by a release: the light has moved there
\* and dragging is false again.
C2_Witness ==
    /\ ~world.dragging
    /\ input.released
    /\ LightOf(world) = CursorAsLight(<<215, 380>>)

\* C3: while dragging is false and no press lands within the light radius, a
\* tick (a hold among them) leaves light_position unchanged; from a press
\* within the light radius on, until the release, every tick in which the
\* button is held sets light_position exactly to the tick's pointer position.
C3_DragFollowsPointer ==
    [][ /\ (~world.dragging /\ ~PressWithinLight(world, input'))
            => LightOf(world') = LightOf(world)
        /\ ((world.dragging \/ PressWithinLight(world, input'))
              /\ input'.held /\ input'.cursor # None)
            => LightOf(world') = CursorAsLight(input'.cursor) ]_vars

\* The spec's scenario: after a press 5 units from the light's centre, a hold
\* at (999, 999) has moved the light exactly there.
C3_Witness ==
    /\ world.dragging
    /\ input.held /\ ~input.pressed /\ input.cursor = <<999, 999>>
    /\ LightOf(world) = CursorAsLight(<<999, 999>>)

\* C9: every tick advances occluder_y by occluder_velocity_y (the f32 sum),
\* whatever input it carries, and the velocity it leaves is the old one or its
\* negation; a tick with no press, hold or release leaves light_position and
\* dragging unchanged; light_position changes only in a tick in which the
\* button is held and dragging is true when the follow rule is evaluated
\* (it was true before the tick, or the tick's press set it).
C9_FrameOfTick ==
    [][ /\ world'.circle_y = F32Add(world.circle_y, world.circle_vy)
        /\ world'.circle_vy \in {world.circle_vy, F32Neg(world.circle_vy)}
        /\ (~input'.pressed /\ ~input'.held /\ ~input'.released)
            => (LightOf(world') = LightOf(world) /\ world'.dragging = world.dragging)
        /\ LightOf(world') # LightOf(world)
            => (input'.held /\ (world.dragging \/ PressWithinLight(world, input'))) ]_vars

\* A tick that carried no button event, with the pointer elsewhere, has
\* moved the occluder and nothing else: the light has been dragged away
\* before and stays where it was put.
C9_Witness ==
    /\ ~input.pressed /\ ~input.held /\ ~input.released
    /\ input.cursor = <<205, 360>>
    /\ ticks = 3
    /\ LightOf(world) = CursorAsLight(<<999, 999>>)
    /\ world.circle_y = F32Add(F32Add(F32Add(CIRCLE_Y, InitialVy), InitialVy), InitialVy)


(***************************************************************************)
(* Properties of World::draw (checked on SpecDraw).                        *)
(***************************************************************************)
\* The pixels of the window and, of those, the ones the call has written.
WindowPixels == {b \div 4 : b \in DOMAIN frame}
Written(i) == \A b \in PixelBytes(i) : writes[b] >= 1
PixelNow(i) == <<frame[4 * i], frame[4 * i + 1], frame[4 * i + 2], frame[4 * i + 3]>>

\* Distance tests on pixel i without rounding, where the coordinates are
\* integers; the occluder's centre need not be, and then the f32 distance
\* is taken.
WithinLight(w, i) ==
    Dist2(i % WIDTH, i \div WIDTH, IntOf(w.light_x), IntOf(w.light_y)) <= LightRadius2

WithinOccluder(w, i) ==
    IF IsInteger(w.circle_y)
    THEN Dist2(i % WIDTH, i \div WIDTH, IntOf(CIRCLE_X), IntOf(w.circle_y)) <= CircleRadius2
    ELSE F32Le(Dist(PixelX(i), PixelY(i), CIRCLE_X, w.circle_y), CIRCLE_R)

\* C5: for every scene snapshot and every pixel, the pixel draw writes is
\* opaque white when its distance to light_position is <= light_radius,
\* wherever the occluder is, and when its distance to the occluder's centre is
\* <= occluder_radius, wherever the light is and whatever the shadow test
\* says; a distance equal to the radius counts as inside.
C5_WhiteWithinRadii ==
    \A i \in WindowPixels :
        (Written(i) /\ (WithinLight(snapshot, i) \/ WithinOccluder(snapshot, i)))
            => PixelNow(i) = White

\* The initial scene drawn on the pixels (225, 360), at exactly light_radius
\* from the light, (700, 360), at exactly occluder_radius from the occluder,
\* and (900, 360), inside the occluder and behind its rim as seen from the
\* light: all three are white, and the shadow test is true for the third.
C5_Witness ==
    /\ DrawDone
    /\ snapshot = NewWorld
    /\ {PixelIndex(<<225, 360>>), PixelIndex(<<700, 360>>), PixelIndex(<<900, 360>>)}
          \subseteq WindowPixels
    /\ \A i \in WindowPixels : Written(i) /\ PixelNow(i) = White
    /\ Dist2(225, 360, 200, 360) = LightRadius2
    /\ Dist2(700, 360, 850, 360) = CircleRadius2
    /\ IsShadowed(LIGHT_X, LIGHT_Y, F32FromInt(900), F32FromInt(360),
                  CIRCLE_X, CIRCLE_Y, CIRCLE_R)

\* The initial scene has been drawn on a window that holds pixel (10, 360).
InitialSceneDrawn ==
    /\ DrawDone
    /\ snapshot.light_x = LIGHT_X /\ snapshot.light_y = LIGHT_Y
    /\ snapshot.circle_y = CIRCLE_Y
    /\ PixelIndex(<<10, 360>>) \in WindowPixels

\* C6 as stated: with the light at (200, 360) and the occluder at (850, 360),
\* radius 150, draw colours pixel (10, 360) opaque black.
C6_PixelBehindLightBlack ==
    InitialSceneDrawn => PixelNow(PixelIndex(<<10, 360>>)) = Black

\* C6 as amended: in that scene draw colours pixel (10, 360) opaque yellow,
\* because is_shadowed(200, 360, 10, 360, 850, 360, 150) returns false (the
\* occluder lies on the other side of the light); the pixel on the same row
\* that has the occluder between the light and itself, (1270, 360), is the
\* one draw colours opaque black.
C6_PixelBehindLightLit ==
    InitialSceneDrawn =>
        /\ PixelNow(PixelIndex(<<10, 360>>)) = Yellow
        /\ ~IsShadowed(LIGHT_X, LIGHT_Y, F32FromInt(10), F32FromInt(360),
                       CIRCLE_X, CIRCLE_Y, CIRCLE_R)
        /\ PixelIndex(<<1270, 360>>) \in WindowPixels
              => PixelNow(PixelIndex(<<1270, 360>>)) = Black

\* The initial scene drawn over a frame that held 171 in every byte: pixel
\* (10, 360) has been written.
C6_Witness ==
    /\ InitialSceneDrawn
    /\ ~snapshot.dragging
    /\ snapshot.circle_vy = InitialVy
    /\ Written(PixelIndex(<<10, 360>>))
    /\ PixelNow(PixelIndex(<<1270, 360>>))[1] = 0

\* What a sequential pass over the pixels leaves in the 4 bytes of pixel i.
SequentialPixel(i) == Shade(snapshot, i)

\* C7: whatever the number of workers and the interleaving, no byte is
\* written twice, the chunks two workers hold at a time do not overlap, a
\* pixel's 4 bytes are written together by the one worker that took its chunk,
\* and the call ends with every byte of every pixel written once and equal to
\* what a sequential pixel-by-pixel pass leaves there, whatever the frame held
\* before and in whatever order the pixels were computed.
C7_ParallelAsSequential ==
    /\ \A b \in DOMAIN writes : writes[b] <= 1
    /\ \A i \in WindowPixels : \A b, c \in PixelBytes(i) : writes[b] = writes[c]
    /\ \A v, w \in Workers :
          (v # w /\ worker[v].busy /\ worker[w].busy) => worker[v].chunk # worker[w].chunk
    /\ \A w \in Workers :
          worker[w].busy =>
              /\ worker[w].chunk \notin todo
              /\ \A b \in PixelBytes(worker[w].chunk) : writes[b] = 0
    /\ \A i \in WindowPixels : Written(i) => PixelNow(i) = SequentialPixel(i)
    /\ DrawDone => \A b \in DOMAIN frame : writes[b] = 1

\* Two workers hold the chunks of two pixels that adjoin in the frame (the last
\* pixel of row 359 and the first of row 360) while the chunk of a third has
\* been stored already.
C7_Witness ==
    /\ \E v, w \in Workers :
          /\ worker[v].busy /\ worker[v].chunk = PixelIndex(<<1279, 359>>)
          /\ worker[w].busy /\ worker[w].chunk = PixelIndex(<<0, 360>>)
    /\ Written(PixelIndex(<<1, 360>>))
    /\ \A b \in PixelBytes(PixelIndex(<<0, 360>>)) : frame[b] = 171

(***************************************************************************)
(* Properties of is_shadowed (checked on SpecGeom).                        *)
(***************************************************************************)
ZeroLengthRay == probe.px = probe.lx /\ probe.py = probe.ly

\* C10: when the pixel coincides with the light (a = 0), for every occluder
\* position and radius is_shadowed passes the early return (the discriminant
\* is not negative), both roots are non-finite, neither passes the [0, 1]
\* test, and the call returns false.
C10_ZeroLengthRayLit ==
    (verdict.called /\ ZeroLengthRay) =>
        /\ IsZero(ProbeQuadratic(probe).a)
        /\ ~verdict.early
        /\ ~F32Lt(verdict.disc, F32FromInt(0))
        /\ ~IsFinite(verdict.t1) /\ ~IsFinite(verdict.t2)
        /\ ~InUnitInterval(verdict.t1) /\ ~InUnitInterval(verdict.t2)
        /\ ~verdict.shadowed

\* is_shadowed has been called with the pixel on the light, the light inside
\* the occluder (so that c < 0).
C10_Witness ==
    /\ verdict.called
    /\ ZeroLengthRay
    /\ probe.lx = 850 /\ probe.ly = 360 /\ probe.cx = 850 /\ probe.cy = 360 /\ probe.r = 150
    /\ F32Lt(ProbeQuadratic(probe).c, F32FromInt(0))

====
